---- MODULE Spec2Model ----
(***************************************************************************)
(* Model of scripts/gauntlet.py: GauntletRunner, the run loop that         *)
(* generates P4 programs, tests them with the oracle, buckets them by      *)
(* verdict and measures coverage per loop directory.                       *)
(***************************************************************************)
EXTENDS Integers, Sequences, FiniteSets, TLC

(* ------------------------------ bounds --------------------------------- *)

\* largest --count
MaxCount == 2
\* the number of indices after which the clock of a --duration run has passed
\* the duration
MaxTimedCount == 1
\* largest --loop-size argument
MaxLoopSize == 2
\* largest --count and --loop-size of a run in which nothing fails
MaxNominalCount == 13
MaxNominalLoopSize == 5
\* largest --count of a run in which only the generator fails
MaxSummaryCount == 11
\* number of text fragments an oracle output is made of
MaxFrags == 3

(* --------------------------- program constants -------------------------- *)

\* gauntlet.py:311  "if program_count % 10 == 0"
SummaryEvery == 10
\* gauntlet.py:284  f"gauntlet{program_count:05d}"
NameWidth == 5
\* gauntlet.py:218  f"loop{loop_index:02d}"
LoopWidth == 2
\* gauntlet.py:272  last_measured_loop_index = -1
NoLoopMeasured == -1

(* ------------------------------ text ------------------------------------ *)

Digits == <<"0", "1", "2", "3", "4", "5", "6", "7", "8", "9">>

UpperCase ==
    <<"A", "B", "C", "D", "E", "F", "G", "H", "I", "J", "K", "L", "M",
      "N", "O", "P", "Q", "R", "S", "T", "U", "V", "W", "X", "Y", "Z">>

LowerCase ==
    <<"a", "b", "c", "d", "e", "f", "g", "h", "i", "j", "k", "l", "m",
      "n", "o", "p", "q", "r", "s", "t", "u", "v", "w", "x", "y", "z">>

\* str.lower() on one character
LowerChar(c) ==
    IF \E i \in 1..Len(UpperCase) : UpperCase[i] = c
    THEN LowerCase[CHOOSE i \in 1..Len(UpperCase) : UpperCase[i] = c]
    ELSE c

\* str.lower()
lower(s) == [i \in 1..Len(s) |-> LowerChar(s[i])]

\* the Python operator  needle in hay
Contains(hay, needle) ==
    \E i \in 1..(Len(hay) - Len(needle) + 1) :
        SubSeq(hay, i, i + Len(needle) - 1) = needle

IsDigit(c) == \E i \in 1..Len(Digits) : Digits[i] = c

DigitValue(c) == (CHOOSE i \in 1..Len(Digits) : Digits[i] = c) - 1

RECURSIVE DecimalDigits(_)
\* str(n) for n >= 0
DecimalDigits(n) ==
    IF n < 10 THEN <<Digits[n + 1]>>
    ELSE DecimalDigits(n \div 10) \o <<Digits[(n % 10) + 1]>>

RECURSIVE ZeroPad(_, _)
ZeroPad(s, width) == IF Len(s) >= width THEN s ELSE ZeroPad(<<"0">> \o s, width)

\* the format spec  {n:0<width>d}  for n >= 0
FormatInt(n, width) == ZeroPad(DecimalDigits(n), width)

RECURSIVE ParseInt(_)
\* int(s) for a non-empty string of digits
ParseInt(s) ==
    IF Len(s) = 1 THEN DigitValue(s[1])
    ELSE 10 * ParseInt(SubSeq(s, 1, Len(s) - 1)) + DigitValue(s[Len(s)])

\* ''.join(ch for ch in s if ch.isdigit())
DigitsOf(s) == SelectSeq(s, IsDigit)

KwWellTyped == <<"w", "e", "l", "l", "-", "t", "y", "p", "e", "d">>
KwIllTyped == <<"i", "l", "l", "-", "t", "y", "p", "e", "d">>
KwIllFormed == <<"i", "l", "l", "-", "f", "o", "r", "m", "e", "d">>

(* --------------------------- pure functions ----------------------------- *)

\* f"gauntlet{program_count:05d}"
ProgramName(n) ==
    <<"g", "a", "u", "n", "t", "l", "e", "t">> \o FormatInt(n, NameWidth)

\* f"loop{loop_index:02d}"
LoopName(loop_index) == <<"l", "o", "o", "p">> \o FormatInt(loop_index, LoopWidth)

\* self.loop_size = max(1, int(loop_size))
ClampLoopSize(arg) == IF arg > 1 THEN arg ELSE 1

\* the numeric suffix of a program name; int() of no digits raises ValueError
ProgramIndex(name) ==
    IF DigitsOf(name) = <<>> THEN 0 ELSE ParseInt(DigitsOf(name))

\* the loop index counted from the number of programs, not from the index
LoopIndexOf_OffByOne(idx, lsize) == (idx + 1) \div lsize

\* loop_index = idx // self.loop_size
LoopIndexOf(idx, lsize) == idx \div lsize

\* _loop_dir_for_program: the name of the loop directory of a program
loop_dir_for_program(name, lsize) == LoopName(LoopIndexOf(ProgramIndex(name), lsize))

\* the chain with "ill-formed" tested before "ill-typed"
Classify_FormedFirst(out) ==
    IF Contains(lower(out), KwWellTyped) THEN "well-typed"
    ELSE IF Contains(lower(out), KwIllFormed) THEN "ill-formed"
    ELSE IF Contains(lower(out), KwIllTyped) THEN "ill-typed"
    ELSE "error"

\* the if/elif chain of test_p4_program over output.lower()
Classify(out) ==
    IF Contains(lower(out), KwWellTyped) THEN "well-typed"
    ELSE IF Contains(lower(out), KwIllTyped) THEN "ill-typed"
    ELSE IF Contains(lower(out), KwIllFormed) THEN "ill-formed"
    ELSE "error"

\* the if/elif chain of categorize_program: the bucket of a result type
DestDir(rtype) ==
    CASE rtype = "well-typed" -> "welltyped"
      [] rtype = "ill-typed" -> "illtyped"
      [] rtype = "ill-formed" -> "illformed"
      [] rtype = "timeout" -> "timeout"
      [] OTHER -> "unknown"

Buckets == {"welltyped", "illtyped", "illformed", "timeout"}

(* ------------------------------ inputs ---------------------------------- *)

\* the largest index of any run
MaxIndex == IF MaxCount > MaxNominalCount THEN MaxCount ELSE MaxNominalCount

\* the covered items are numbered: the programs of loop k cover item k, which
\* no other loop covers, and StaleItem is covered by an earlier run only
StaleItem == MaxIndex + 1

\* the record the coverage tool measures for the directory of a loop
RawMeasurement(loop_index) == {loop_index}

\* --loop-size arguments: negative, zero and positive
LoopSizeArgs == (0 - 1)..MaxLoopSize

FragWell == <<"W", "e", "l", "l", "-", "T", "y", "p", "e", "d", " ">>
FragIllTyped == <<"I", "L", "L", "-", "T", "Y", "P", "E", "D">>
FragIllFormed == <<"i", "l", "l", "-", "F", "o", "r", "m", "e", "d">>
FragCrash == <<"e", "r", "r", "o", "r", ":", " ", "c", "r", "a", "s", "h">>
FragIll == <<"i", "l", "l", "-">>
FragTyped == <<"t", "y", "p", "e", "d">>

Fragments == {FragWell, FragIllTyped, FragIllFormed, FragCrash, FragIll, FragTyped}

RECURSIVE Texts(_)
\* the texts made of at most n fragments
Texts(n) ==
    IF n = 0 THEN {<<>>}
    ELSE Texts(n - 1) \cup {t \o f : t \in Texts(n - 1), f \in Fragments}

\* the oracle outputs tried in a run: one per result type, the ill-typed one
\* with two keywords
RunOutputs == {FragWell, FragIllFormed \o FragIllTyped, FragIllFormed, FragCrash}

(* ------------------------------- state ---------------------------------- *)

VARIABLES
    pc,                         \* position in run_gauntlet
    duration,                   \* --duration (0: None)
    count,                      \* --count (0: None)
    loop_size_arg,              \* --loop-size as given
    loop_size,                  \* self.loop_size
    watsup,                     \* spec-concrete holds *.watsup files
    faults,                     \* the environment may fail in this run
    genfaults,                  \* the generator may fail in this run
    program_count,
    program_name,
    result_type,
    output,
    last_measured_loop_index,
    fs,                         \* the *.p4 files under p4c/build and gauntlet/
    cov,                        \* the *.cov files: path -> covered items
    cycle,                      \* history: how the cycle of each index ended
    generator,                  \* history: what the generator did for each index
    oracle,                     \* history: what the oracle did for each index
    verdict,                    \* history: the result type of each index
    measureLog,                 \* history: the coverage measurements started
    rawCov,                     \* history: the raw measurement of each loop
    summaries,                  \* history: number of summaries printed
    lastSummary,                \* history: the counts last printed
    interrupted,                \* history: KeyboardInterrupt was raised
    categorized,                \* history: what the calls of categorize_program returned
    exit_status                 \* exit status of the process ("none": it runs)

vars ==
    <<pc, duration, count, loop_size_arg, loop_size, watsup, faults, genfaults,
      program_count,
      program_name, result_type, output, last_measured_loop_index, fs, cov,
      cycle, generator, oracle, verdict, measureLog, rawCov, summaries,
      lastSummary, interrupted, categorized, exit_status>>

(* ----------------------------- file system ------------------------------ *)

\* self.p4c_build_dir / f"{program_name}.p4"
StagingFile(name) == [root |-> "build", loop |-> <<>>, sub |-> "", name |-> name]

\* loop_dir / <bucket> / f"{program_name}.p4"
BucketFile(name, loop, sub) ==
    [root |-> "gauntlet", loop |-> loop, sub |-> sub, name |-> name]

\* dest_file of categorize_program
DestFile(name, rtype, lsize) ==
    BucketFile(name, loop_dir_for_program(name, lsize), DestDir(rtype))

\* self.gauntlet_dir / f"{loop_name}.cov"
CovFile(loop_index) == <<"gauntlet", LoopName(loop_index)>>

\* self.project_root / f"{prev_name}.cov"
PrevCov(loop_index) == <<"project", LoopName(loop_index - 1)>>

\* a file written: created or replaced
WriteFile(c, path, items) ==
    [p \in DOMAIN c \cup {path} |-> IF p = path THEN items ELSE c[p]]

\* coverage_utils.union_coverage: the union of two records
union_coverage(prev, curr) == prev \cup curr

\* print_summary: the *.p4 files counted under gauntlet/loop*/<bucket>
CountIn(files, sub) ==
    Cardinality({f \in files : f.root = "gauntlet" /\ f.sub = sub})

\* the timeout bucket left out of the total
print_summary_NoTimeout(files) ==
    [welltyped |-> CountIn(files, "welltyped"),
     illtyped |-> CountIn(files, "illtyped"),
     illformed |-> CountIn(files, "illformed"),
     timeout |-> CountIn(files, "timeout"),
     total |-> CountIn(files, "welltyped") + CountIn(files, "illtyped")
               + CountIn(files, "illformed")]

print_summary(files) ==
    [welltyped |-> CountIn(files, "welltyped"),
     illtyped |-> CountIn(files, "illtyped"),
     illformed |-> CountIn(files, "illformed"),
     timeout |-> CountIn(files, "timeout"),
     total |-> CountIn(files, "welltyped") + CountIn(files, "illtyped")
               + CountIn(files, "illformed") + CountIn(files, "timeout")]

(* ------------------------------ operations ------------------------------ *)

\* the exit status of the generator not looked at
GenerateSucceeds_IgnoresStatus(kind, exists) == exists

\* generate_p4_program: True only for exit status 0 with the output file there
GenerateSucceeds(kind, exists) == kind = "exit0" /\ exists

\* the text printed before a timeout classified like any other
TestOutcome_TimeoutClassified(oc, out) ==
    IF oc = "exception" THEN "error" ELSE Classify(out)

\* test_p4_program once the oracle was launched: the except clauses, then the
\* classification of stdout + stderr
TestOutcome(oc, out) ==
    CASE oc = "timeout" -> "timeout"
      [] oc = "exception" -> "error"
      [] OTHER -> Classify(out)

\* test_p4_program
test_p4_program(files, name, hasWatsup, oc, out) ==
    IF StagingFile(name) \notin files THEN "error"
    ELSE IF ~hasWatsup THEN "error"
    ELSE TestOutcome(oc, out)

\* test_p4_program, the second component: stdout + stderr when the oracle
\* returned, else a fixed message (left empty)
test_output(hasWatsup, oc, out) ==
    IF hasWatsup /\ oc = "returned" THEN out ELSE <<>>

\* the generated file left where it is
ErrorCleanup_Keep(files, name) == files

\* run_gauntlet, the "error" branch: temp_file.unlink() if it exists
ErrorCleanup(files, name) == files \ {StagingFile(name)}

\* shutil.move(source_file, dest_file)
MoveFile(files, name, rtype, lsize) ==
    (files \ {StagingFile(name)}) \cup {DestFile(name, rtype, lsize)}

\* the source file not looked for
CanCategorize_NoSourceCheck(files, name, rtype) == DestDir(rtype) \in Buckets

\* categorize_program: whether it gets as far as shutil.move
CanCategorize(files, name, rtype) ==
    StagingFile(name) \in files /\ DestDir(rtype) \in Buckets

\* categorize_program: the files it leaves and the value it returns; moveOk:
\* shutil.move raised nothing
categorize_program(files, name, rtype, lsize, moveOk) ==
    IF CanCategorize(files, name, rtype) /\ moveOk
    THEN [files |-> MoveFile(files, name, rtype, lsize), ok |-> TRUE]
    ELSE [files |-> files, ok |-> FALSE]

\* the loop left one index late
CountReached_OffByOne(n, c) == c # 0 /\ n > c

\* run_gauntlet: "if count and program_count >= count"
CountReached(n, c) == c # 0 /\ n >= c

\* the boundary taken one index early
LoopCompleted_Early(n, lsize) == (n + 1) % lsize = 0

\* run_gauntlet: "if program_count % self.loop_size == 0"
LoopCompleted(n, lsize) == n % lsize = 0

\* the loop index taken from the count of programs, not from the last index
CurrentLoopIndex_OfCount(n, lsize) == n \div lsize

\* run_gauntlet: loop_index = (program_count - 1) // self.loop_size
CurrentLoopIndex(n, lsize) == (n - 1) \div lsize

\* the final loop measured again whatever was measured at the last boundary
FinalMeasureDue_Always(n, lsize, last) == n > 0

\* the final loop measured unless a later loop was measured
FinalMeasureDue_NotBelow(n, lsize, last) ==
    n > 0 /\ CurrentLoopIndex(n, lsize) >= last

\* run_gauntlet, after the loop: whether the final loop is still to be measured
FinalMeasureDue(n, lsize, last) ==
    n > 0 /\ CurrentLoopIndex(n, lsize) # last

\* the union written although reading or joining the records raised
measure_loop_coverage_UnionAnyway(c, loop_index, hasWatsup, tool, raw, unionOk) ==
    IF ~hasWatsup THEN c
    ELSE IF tool # "ok" THEN c
    ELSE LET measured == WriteFile(c, CovFile(loop_index), raw)
         IN  IF loop_index > 0 /\ PrevCov(loop_index) \in DOMAIN measured
             THEN WriteFile(measured, CovFile(loop_index),
                            union_coverage(measured[PrevCov(loop_index)],
                                           measured[CovFile(loop_index)]))
             ELSE measured

\* measure_loop_coverage: the *.cov files it leaves.  tool: how the coverage
\* tool ended; raw: what it measured; unionOk: read_coverage, union_coverage
\* and write_coverage raised nothing
measure_loop_coverage(c, loop_index, hasWatsup, tool, raw, unionOk) ==
    IF ~hasWatsup THEN c
    ELSE IF tool # "ok" THEN c
    ELSE LET measured == WriteFile(c, CovFile(loop_index), raw)
         IN  IF loop_index > 0 /\ PrevCov(loop_index) \in DOMAIN measured /\ unionOk
             THEN WriteFile(measured, CovFile(loop_index),
                            union_coverage(measured[PrevCov(loop_index)],
                                           measured[CovFile(loop_index)]))
             ELSE measured

\* the measurement went through: the tool ran and wrote its record
Measured(hasWatsup, tool) == hasWatsup /\ tool = "ok"

(* ------------------------------- Init ----------------------------------- *)

\* the *.cov files at the start: gauntlet/ is fresh; the project root, which
\* the run never writes, holds no loop00.cov or one left there
StaleCovs == {<<>>, [p \in {<<"project", LoopName(0)>>} |-> {StaleItem}]}

InitRun ==
    /\ program_count = 0
    /\ program_name = <<>>
    /\ result_type = "none"
    /\ last_measured_loop_index = NoLoopMeasured
    /\ fs = {}
    /\ cycle = <<>>
    /\ generator = <<>>
    /\ oracle = <<>>
    /\ verdict = <<>>
    /\ measureLog = <<>>
    /\ rawCov = <<>>
    /\ summaries = 0
    /\ lastSummary = print_summary({})
    /\ interrupted = FALSE
    /\ categorized = <<>>
    /\ exit_status = "none"

\* main: exactly one of --duration and --count; GauntletRunner.__init__
Init ==
    /\ pc = "start"
    /\ \/ count \in 1..MaxCount /\ duration = 0
       \/ count = 0 /\ duration = 1
    /\ loop_size_arg \in LoopSizeArgs
    /\ loop_size = ClampLoopSize(loop_size_arg)
    /\ watsup \in BOOLEAN
    /\ faults = TRUE
    /\ genfaults = TRUE
    /\ cov \in StaleCovs
    /\ output = <<>>
    /\ InitRun

\* a run in which nothing fails and every program is well-typed
InitNominal ==
    /\ pc = "start"
    /\ count \in 1..MaxNominalCount
    /\ duration = 0
    /\ loop_size_arg \in 1..MaxNominalLoopSize
    /\ loop_size = ClampLoopSize(loop_size_arg)
    /\ watsup = TRUE
    /\ faults = FALSE
    /\ genfaults = FALSE
    /\ cov = <<>>
    /\ output = <<>>
    /\ InitRun

\* a run of ten programs or more in which the generator may fail and nothing
\* else does
InitSummary ==
    /\ pc = "start"
    /\ count \in SummaryEvery..MaxSummaryCount
    /\ duration = 0
    /\ loop_size_arg = MaxNominalLoopSize
    /\ loop_size = ClampLoopSize(loop_size_arg)
    /\ watsup = TRUE
    /\ faults = FALSE
    /\ genfaults = TRUE
    /\ cov = <<>>
    /\ output = <<>>
    /\ InitRun

\* the result types categorize_program has a bucket for
StoredTypes == {"well-typed", "ill-typed", "ill-formed", "timeout"}

\* categorize_program about to be called for a generated program with a
\* result type, the program of index 0 being stored or not
InitRelocate ==
    /\ pc = "relocate"
    /\ count = MaxNominalCount
    /\ duration = 0
    /\ loop_size_arg \in 1..MaxNominalLoopSize
    /\ loop_size = ClampLoopSize(loop_size_arg)
    /\ watsup = TRUE
    /\ faults = TRUE
    /\ genfaults = TRUE
    /\ cov = <<>>
    /\ output = <<>>
    /\ program_count \in 1..MaxNominalCount
    /\ program_name = ProgramName(program_count - 1)
    /\ result_type \in StoredTypes
    /\ last_measured_loop_index = NoLoopMeasured
    /\ \E earlier \in SUBSET {BucketFile(ProgramName(0), LoopName(0), "welltyped")} :
        /\ program_count = 1 => earlier = {}
        /\ fs = earlier \cup {StagingFile(program_name)}
    /\ cycle = <<>>
    /\ generator = <<>>
    /\ oracle = <<>>
    /\ verdict = <<>>
    /\ measureLog = <<>>
    /\ rawCov = <<>>
    /\ summaries = 0
    /\ lastSummary = print_summary({})
    /\ interrupted = FALSE
    /\ categorized = <<>>
    /\ exit_status = "none"

\* test_p4_program about to run the oracle, which will print some text
InitClassify ==
    /\ pc = "classify"
    /\ count = 1
    /\ duration = 0
    /\ loop_size_arg = 1
    /\ loop_size = ClampLoopSize(loop_size_arg)
    /\ watsup = TRUE
    /\ faults = TRUE
    /\ genfaults = TRUE
    /\ cov = <<>>
    /\ output \in Texts(MaxFrags)
    /\ InitRun

(* ---------------------------- environment ------------------------------- *)

\* check_dependencies: the tools and directories are there or not
DepsChoices == IF faults THEN BOOLEAN ELSE {TRUE}

\* time.time() - start_time >= duration or not; it is after MaxTimedCount
\* indices
ClockChoices ==
    {e \in BOOLEAN : (duration # 0 /\ program_count >= MaxTimedCount) => e}

\* how a generator invocation may end
GenKinds == {"exit0", "nonzero", "timeout", "nolaunch"}

\* how the generator ends, and whether it wrote its output file
GenChoices ==
    IF faults
    THEN {c \in GenKinds \X BOOLEAN : c[1] = "nolaunch" => ~c[2]}
    ELSE IF genfaults
    THEN {<<"exit0", TRUE>>, <<"nonzero", FALSE>>}
    ELSE {<<"exit0", TRUE>>}

\* how an oracle invocation may end
OracleEnds == {"returned", "timeout", "exception"}

\* how the oracle ends, and the text it printed: some text when it returned,
\* any or none when it timed out, none when it was not launched
OracleChoices ==
    IF faults
    THEN {c \in OracleEnds \X (RunOutputs \cup {<<>>}) :
            /\ (c[1] = "returned" /\ watsup) => c[2] # <<>>
            /\ (c[1] = "exception" \/ ~watsup) => c[2] = <<>>}
    ELSE {<<"returned", FragWell>>}

\* shutil.move succeeds or raises
MoveChoices == IF faults THEN BOOLEAN ELSE {TRUE}

\* how a coverage tool invocation may end: "failed" is a non-zero exit, a
\* timeout or a launch error
ToolEnds == {"ok", "failed"}

\* how the coverage tool ends, its record ({} when it wrote none), and
\* whether the union step raised nothing (TRUE when it is not reached)
MeasureChoices(loop_index) ==
    IF faults
    THEN {c \in ToolEnds \X {RawMeasurement(loop_index), {}} \X BOOLEAN :
            /\ Measured(watsup, c[1]) <=> c[2] # {}
            /\ ~(Measured(watsup, c[1]) /\ loop_index > 0
                   /\ PrevCov(loop_index) \in DOMAIN cov) => c[3]}
    ELSE {<<"ok", RawMeasurement(loop_index), TRUE>>}

(* ------------------------------ actions --------------------------------- *)

config == <<duration, count, loop_size_arg, loop_size, watsup, faults, genfaults>>

history ==
    <<cycle, generator, oracle, verdict, measureLog, rawCov, summaries, lastSummary>>

SetLast(seq, v) == [seq EXCEPT ![Len(seq)] = v]

\* a measurement entered in the history
LogEntry(loop_index, phase, ok) ==
    [loop |-> loop_index, phase |-> phase, at |-> program_count, ok |-> ok]

\* main: run_gauntlet returned and main ends, with no call of sys.exit
ExitStatusOfReturn == "zero"

\* a KeyboardInterrupt no except clause catches ends the process with a
\* traceback
ExitStatusOfTraceback == "nonzero"

\* run_gauntlet: check_dependencies()
CheckDependencies ==
    /\ pc = "start"
    /\ \E depsOk \in DepsChoices :
        /\ pc' = IF depsOk THEN "loop" ELSE "aborted"
        /\ exit_status' = IF depsOk THEN exit_status ELSE ExitStatusOfReturn
    /\ UNCHANGED <<config, categorized, program_count, program_name, result_type, output,
                   last_measured_loop_index, fs, cov, history, interrupted>>

\* run_gauntlet, head of the while loop: the stop conditions, then the next
\* program name.  The clock has passed the duration or not.
LoopHead ==
    /\ pc = "loop"
    /\ \E elapsed \in ClockChoices :
        IF (duration # 0 /\ elapsed) \/ CountReached(program_count, count)
        THEN /\ pc' = "finishing"
             /\ UNCHANGED <<program_count, program_name, cycle, generator, oracle, verdict>>
        ELSE /\ pc' = "generate"
             /\ program_name' = ProgramName(program_count)
             /\ program_count' = program_count + 1
             /\ cycle' = Append(cycle, "pending")
             /\ generator' = Append(generator, "none")
             /\ oracle' = Append(oracle, "none")
             /\ verdict' = Append(verdict, "none")
    /\ UNCHANGED <<config, exit_status, categorized, result_type, output, last_measured_loop_index, fs, cov,
                   measureLog, rawCov, summaries, lastSummary, interrupted>>


\* run_gauntlet: generate_p4_program(program_name), and the skip when it fails
Generate ==
    /\ pc = "generate"
    /\ \E kind \in GenKinds, wrote \in BOOLEAN :
        /\ <<kind, wrote>> \in GenChoices
        /\ fs' = IF wrote THEN fs \cup {StagingFile(program_name)} ELSE fs
        /\ generator' = SetLast(generator,
                                IF kind = "exit0" /\ wrote THEN "ok" ELSE "failed")
        /\ IF GenerateSucceeds(kind, StagingFile(program_name) \in fs')
           THEN pc' = "test" /\ cycle' = cycle
           ELSE pc' = "loop" /\ cycle' = SetLast(cycle, "genfail")
    /\ UNCHANGED <<config, exit_status, categorized, program_count, program_name, result_type, output,
                   last_measured_loop_index, cov, oracle, verdict, measureLog, rawCov,
                   summaries, lastSummary, interrupted>>


\* run_gauntlet: result_type, output = self.test_p4_program(program_name)
Test ==
    /\ pc = "test"
    /\ \E oc \in OracleEnds, out \in RunOutputs \cup {<<>>} :
        /\ <<oc, out>> \in OracleChoices
        /\ result_type' = test_p4_program(fs, program_name, watsup, oc, out)
        /\ output' = test_output(watsup, oc, out)
        /\ oracle' = SetLast(oracle, IF watsup THEN oc ELSE "notrun")
        /\ verdict' = SetLast(verdict, result_type')
    /\ pc' = IF result_type' = "error" THEN "cleanup" ELSE "categorize"
    /\ UNCHANGED <<config, exit_status, categorized, program_count, program_name, last_measured_loop_index,
                   fs, cov, cycle, generator, measureLog, rawCov, summaries,
                   lastSummary, interrupted>>

\* run_gauntlet: the branch  result_type == "error"
Cleanup ==
    /\ pc = "cleanup"
    /\ fs' = ErrorCleanup(fs, program_name)
    /\ cycle' = SetLast(cycle, "error")
    /\ pc' = "loop"
    /\ UNCHANGED <<config, exit_status, categorized, program_count, program_name, result_type, output,
                   last_measured_loop_index, cov, generator, oracle, verdict, measureLog,
                   rawCov, summaries, lastSummary, interrupted>>

\* run_gauntlet: categorize_program(program_name, result_type); when it
\* succeeds, "Processed" and the summary every 10 programs
Categorize ==
    /\ pc = "categorize"
    /\ \E moveOk \in MoveChoices :
        IF CanCategorize(fs, program_name, result_type) /\ moveOk
        THEN /\ fs' = MoveFile(fs, program_name, result_type, loop_size)
             /\ cycle' = SetLast(cycle, "stored")
             /\ categorized' = Append(categorized, TRUE)
             /\ IF program_count % SummaryEvery = 0
                THEN /\ summaries' = summaries + 1
                     /\ lastSummary' = print_summary(fs')
                ELSE UNCHANGED <<summaries, lastSummary>>
             /\ pc' = "boundary"
        ELSE /\ cycle' = SetLast(cycle, "relocfail")
             /\ categorized' = Append(categorized, FALSE)
             /\ pc' = "loop"
             /\ UNCHANGED <<fs, summaries, lastSummary>>
    /\ UNCHANGED <<config, exit_status, program_count, program_name, result_type, output,
                   last_measured_loop_index, cov, generator, oracle, verdict, measureLog,
                   rawCov, interrupted>>


\* a call of measure_loop_coverage(loop_index) in the given phase
Measure(loop_index, phase) ==
    \E tool \in ToolEnds, raw \in {RawMeasurement(loop_index), {}},
       unionOk \in BOOLEAN :
        /\ <<tool, raw, unionOk>> \in MeasureChoices(loop_index)
        /\ cov' = measure_loop_coverage(cov, loop_index, watsup, tool, raw, unionOk)
        /\ measureLog' =
             Append(measureLog,
                    LogEntry(loop_index, phase, Measured(watsup, tool) /\ unionOk))
        /\ rawCov' = IF Measured(watsup, tool)
                     THEN WriteFile(rawCov, loop_index, raw)
                     ELSE rawCov

\* run_gauntlet: the end of a cycle that stored its program: the coverage
\* measurement when the loop is complete
Boundary ==
    /\ pc = "boundary"
    /\ IF LoopCompleted(program_count, loop_size)
       THEN /\ Measure(CurrentLoopIndex(program_count, loop_size), "boundary")
            /\ last_measured_loop_index' = CurrentLoopIndex(program_count, loop_size)
       ELSE UNCHANGED <<cov, measureLog, rawCov, last_measured_loop_index>>
    /\ pc' = "loop"
    /\ UNCHANGED <<config, exit_status, categorized, program_count, program_name, result_type, output, fs,
                   cycle, generator, oracle, verdict, summaries, lastSummary, interrupted>>

\* the cycle in flight, if any, is cut short
CutCycle ==
    IF pc # "loop" /\ cycle[Len(cycle)] = "pending"
    THEN SetLast(cycle, "interrupted")
    ELSE cycle

\* KeyboardInterrupt raised between two calls, or while the oracle runs
InterruptPlain ==
    /\ faults
    /\ IF pc = "boundary"
       THEN ~LoopCompleted(program_count, loop_size)
       ELSE pc \in {"loop", "test", "cleanup"}
    /\ pc' = "finishing"
    /\ interrupted' = TRUE
    /\ cycle' = CutCycle
    /\ UNCHANGED <<config, exit_status, categorized, program_count, program_name, result_type, output,
                   last_measured_loop_index, fs, cov, generator, oracle, verdict,
                   measureLog, rawCov, summaries, lastSummary>>

\* KeyboardInterrupt raised while the generator runs: subprocess.run kills
\* it, and its output file is there or not
InterruptGenerate ==
    /\ faults
    /\ pc = "generate"
    /\ pc' = "finishing"
    /\ interrupted' = TRUE
    /\ cycle' = CutCycle
    /\ \E wrote \in BOOLEAN :
        /\ fs' = IF wrote THEN fs \cup {StagingFile(program_name)} ELSE fs
        /\ generator' = SetLast(generator, "interrupted")
    /\ UNCHANGED <<config, exit_status, categorized, program_count, program_name, result_type, output,
                   last_measured_loop_index, cov, oracle, verdict, measureLog, rawCov,
                   summaries, lastSummary>>

\* KeyboardInterrupt raised in categorize_program: the rename is done or not
InterruptCategorize ==
    /\ faults
    /\ pc = "categorize"
    /\ pc' = "finishing"
    /\ interrupted' = TRUE
    /\ cycle' = CutCycle
    /\ \E moved \in BOOLEAN :
        fs' = IF moved /\ CanCategorize(fs, program_name, result_type)
              THEN MoveFile(fs, program_name, result_type, loop_size)
              ELSE fs
    /\ UNCHANGED <<config, exit_status, categorized, program_count, program_name, result_type, output,
                   last_measured_loop_index, cov, generator, oracle, verdict, measureLog,
                   rawCov, summaries, lastSummary>>

\* KeyboardInterrupt raised while the coverage tool runs at a loop boundary:
\* the tool is killed, its record is written or not, no union is made and
\* last_measured_loop_index keeps its value
InterruptMeasure ==
    /\ faults
    /\ pc = "boundary"
    /\ LoopCompleted(program_count, loop_size)
    /\ watsup
    /\ pc' = "finishing"
    /\ interrupted' = TRUE
    /\ \E wrote \in BOOLEAN,
          raw \in {RawMeasurement(CurrentLoopIndex(program_count, loop_size)), {}} :
        /\ wrote <=> raw # {}
        /\ cov' = IF wrote
                  THEN WriteFile(cov, CovFile(CurrentLoopIndex(program_count, loop_size)), raw)
                  ELSE cov
    /\ measureLog' =
         Append(measureLog,
                LogEntry(CurrentLoopIndex(program_count, loop_size), "boundary", FALSE))
    /\ UNCHANGED <<config, exit_status, categorized, program_count, program_name, result_type, output,
                   last_measured_loop_index, fs, cycle, generator, oracle, verdict, rawCov,
                   summaries, lastSummary>>

KeyboardInterrupt ==
    InterruptPlain \/ InterruptGenerate \/ InterruptCategorize \/ InterruptMeasure

\* run_gauntlet after the loop: the coverage of the final loop if it was not
\* measured, then the final summary
Finishing ==
    /\ pc = "finishing"
    /\ IF FinalMeasureDue(program_count, loop_size, last_measured_loop_index)
       THEN Measure(CurrentLoopIndex(program_count, loop_size), "finishing")
       ELSE UNCHANGED <<cov, measureLog, rawCov>>
    /\ summaries' = summaries + 1
    /\ lastSummary' = print_summary(fs)
    /\ pc' = "done"
    /\ exit_status' = ExitStatusOfReturn
    /\ UNCHANGED <<config, categorized, program_count, program_name, result_type, output,
                   last_measured_loop_index, fs, cycle, generator, oracle, verdict,
                   interrupted>>

\* KeyboardInterrupt raised after the loop, outside the try statement: no
\* except clause catches it and the process ends before the final summary.
\* When the final measurement is due the coverage tool was started, and its
\* record is written or not.
InterruptFinishing ==
    /\ faults
    /\ pc = "finishing"
    /\ pc' = "killed"
    /\ interrupted' = TRUE
    /\ exit_status' = ExitStatusOfTraceback
    /\ IF FinalMeasureDue(program_count, loop_size, last_measured_loop_index) /\ watsup
       THEN /\ \E wrote \in BOOLEAN :
                cov' = IF wrote
                       THEN WriteFile(cov, CovFile(CurrentLoopIndex(program_count, loop_size)),
                                      RawMeasurement(CurrentLoopIndex(program_count, loop_size)))
                       ELSE cov
            /\ measureLog' =
                 Append(measureLog,
                        LogEntry(CurrentLoopIndex(program_count, loop_size), "finishing", FALSE))
       ELSE UNCHANGED <<cov, measureLog>>
    /\ UNCHANGED <<config, categorized, program_count, program_name, result_type, output,
                   last_measured_loop_index, fs, cycle, generator, oracle, verdict, rawCov,
                   summaries, lastSummary>>

Next ==
    \/ CheckDependencies
    \/ LoopHead
    \/ Generate
    \/ Test
    \/ Cleanup
    \/ Categorize
    \/ Boundary
    \/ KeyboardInterrupt
    \/ InterruptFinishing
    \/ Finishing

Spec == Init /\ [][Next]_vars

\* the steps of a run in which nothing fails
NextNominal ==
    \/ CheckDependencies
    \/ LoopHead
    \/ Generate
    \/ Test
    \/ Categorize
    \/ Boundary
    \/ Finishing

SpecNominal == InitNominal /\ [][NextNominal]_vars

SpecSummary == InitSummary /\ [][NextNominal]_vars

\* a --count run in which the environment may fail and no interrupt is raised,
\* the project root holding no *.cov file
InitCount == Init /\ count # 0 /\ cov = <<>>

\* the steps of a run in which no KeyboardInterrupt is raised
NextRun ==
    \/ CheckDependencies
    \/ LoopHead
    \/ Generate
    \/ Test
    \/ Cleanup
    \/ Categorize
    \/ Boundary
    \/ Finishing

\* every call of run_gauntlet returns: the generator, the oracle and the
\* coverage tool run under a timeout, so the process always takes its next step
SpecCount == InitCount /\ [][NextRun]_vars /\ WF_vars(NextRun)

\* test_p4_program from the oracle invocation on: the oracle ends in some
\* way, having printed the text in output, and the result type is returned
ClassifyOutput ==
    /\ pc = "classify"
    /\ \E oc \in OracleEnds :
        /\ result_type' = TestOutcome(oc, output)
        /\ oracle' = <<oc>>
    /\ pc' = "classified"
    /\ UNCHANGED <<config, exit_status, categorized, program_count, program_name, output,
                   last_measured_loop_index, fs, cov, cycle, generator, verdict,
                   measureLog, rawCov, summaries, lastSummary, interrupted>>

SpecClassify == InitClassify /\ [][ClassifyOutput]_vars

\* a call of categorize_program(program_name, result_type)
CategorizeCall(from, to) ==
    /\ pc = from
    /\ \E moveOk \in MoveChoices :
        LET r == categorize_program(fs, program_name, result_type, loop_size, moveOk)
        IN  /\ fs' = r.files
            /\ categorized' = Append(categorized, r.ok)
    /\ pc' = to
    /\ UNCHANGED <<config, exit_status, program_count, program_name, result_type,
                   output, last_measured_loop_index, cov, cycle, generator, oracle,
                   verdict, measureLog, rawCov, summaries, lastSummary, interrupted>>

\* categorize_program called for a program and a result type
CategorizeFirst == CategorizeCall("relocate", "relocated")

\* categorize_program called once more for the same program and result type
CategorizeAgain == CategorizeCall("relocated", "relocated_again")

NextRelocate == CategorizeFirst \/ CategorizeAgain

SpecRelocate == InitRelocate /\ [][NextRelocate]_vars

(* ------------------------------ properties ------------------------------ *)

\* the indices assigned so far
Indices == 0..(program_count - 1)

\* the program name and the loop directory name of each number
NameOf == [i \in 0..MaxIndex |-> ProgramName(i)]

LoopNameOf == [b \in 0..MaxIndex |-> LoopName(b)]

\* the files on disk that belong to index i
FilesOf(i) == {f \in fs : f.name = NameOf[i]}

\* the files of index i under gauntlet/loop*/
BucketFilesOf(i) == {f \in FilesOf(i) : f.root = "gauntlet"}

\* the cycle of index i ran to its end (it was not cut by an interrupt)
Ended(i) == cycle[i + 1] \in {"genfail", "error", "relocfail", "stored"}

\* the run has left the while loop
AfterLoop == pc \in {"finishing", "done", "killed"}

\* C1: when the loops 0..n were measured in order, each measurement and each
\* record read and write succeeding, the record gauntlet/loop<n>.cov is the
\* union of the raw measurements of the loops 0..n.
C1_CumulativeCoverage ==
    (/\ Len(measureLog) > 0
     /\ \A k \in 1..Len(measureLog) : measureLog[k].loop = k - 1 /\ measureLog[k].ok)
    => LET n == Len(measureLog) - 1
       IN  /\ CovFile(n) \in DOMAIN cov
           /\ cov[CovFile(n)] = UNION {rawCov[b] : b \in 0..n}

\* C2: once the cycle of an index i with (i + 1) % loop_size = 0 has ended,
\* in whatever way (stored, generation failure, error verdict, relocation
\* failure), and index i + 1 is assigned, a measurement of loop
\* i div loop_size was started at the boundary, after the cycle of i.
C2_BoundaryTrigger ==
    \A i \in Indices :
        (/\ Ended(i)
         /\ (i + 1) % loop_size = 0
         /\ i + 1 < program_count)
        => \E k \in 1..Len(measureLog) :
               /\ measureLog[k].loop = i \div loop_size
               /\ measureLog[k].phase = "boundary"
               /\ measureLog[k].at = i + 1

\* every index assigned so far was stored and nothing interrupted the run
AllStored ==
    /\ ~interrupted
    /\ \A i \in Indices : cycle[i + 1] \in {"stored", "pending"}
    /\ \A i \in Indices : cycle[i + 1] = "pending" => i = program_count - 1

\* C3: in a --count run in which every index is stored, the measurements
\* started are those of the loops 0, 1, 2, ... in this order, one each: loop
\* b at the boundary right after index (b+1)*loop_size - 1 was stored, and a
\* partial final loop once after the while loop; when count is a multiple of
\* loop_size nothing is measured after the while loop.
C3_OncePerBatch ==
    (count >= 1 /\ AllStored) =>
        /\ \A k \in 1..Len(measureLog) :
            /\ measureLog[k].loop = k - 1
            /\ measureLog[k].phase = "boundary" => measureLog[k].at = k * loop_size
            /\ measureLog[k].phase = "finishing" =>
                 /\ k = Len(measureLog)
                 /\ measureLog[k].at = count
                 /\ count % loop_size # 0
        /\ pc = "loop" => Len(measureLog) = program_count \div loop_size
        /\ pc \in {"generate", "test", "categorize", "boundary"} =>
             Len(measureLog) = (program_count - 1) \div loop_size
        /\ pc = "finishing" => Len(measureLog) = count \div loop_size
        /\ pc = "done" =>
             Len(measureLog) = (count + loop_size - 1) \div loop_size

\* C3: the run --count 13 --loop-size 5 has ended: measured at the boundaries
\* after index 4 and index 9, and once after the loop for the partial loop 2
C3_Witness ==
    /\ pc = "done"
    /\ count = 13
    /\ loop_size = 5
    /\ AllStored
    /\ Cardinality({f \in fs : f.root = "gauntlet"}) = 13
    /\ measureLog = << [loop |-> 0, phase |-> "boundary", at |-> 5, ok |-> TRUE],
                       [loop |-> 1, phase |-> "boundary", at |-> 10, ok |-> TRUE],
                       [loop |-> 2, phase |-> "finishing", at |-> 13, ok |-> TRUE] >>

\* kw occurs in out, letter case ignored
HasKeyword(out, kw) ==
    \E i \in 1..(Len(out) - Len(kw) + 1) :
        \A j \in 1..Len(kw) : LowerChar(out[i + j - 1]) = kw[j]

\* C4: when the oracle returns, the result type is well-typed if its output
\* contains "well-typed" in any letter case; else ill-typed if it contains
\* "ill-typed"; else ill-formed if it contains "ill-formed"; else error.  So
\* an output with "ill-typed" and "ill-formed" and no "well-typed" is
\* ill-typed.
C4_Precedence ==
    (pc = "classified" /\ oracle = <<"returned">>) =>
        /\ result_type =
             IF HasKeyword(output, KwWellTyped) THEN "well-typed"
             ELSE IF HasKeyword(output, KwIllTyped) THEN "ill-typed"
             ELSE IF HasKeyword(output, KwIllFormed) THEN "ill-formed"
             ELSE "error"
        /\ (/\ HasKeyword(output, KwIllTyped)
            /\ HasKeyword(output, KwIllFormed)
            /\ ~HasKeyword(output, KwWellTyped)) => result_type = "ill-typed"

\* C4: an output with "ill-formed" first and "ILL-TYPED" after it, and no
\* "well-typed", was classified ill-typed
C4_Witness ==
    /\ pc = "classified"
    /\ oracle = <<"returned">>
    /\ output = FragIllFormed \o FragCrash \o FragIllTyped
    /\ result_type = "ill-typed"

\* the file of index i in the timeout bucket of loop i div loop_size
TimeoutFile(i) ==
    BucketFile(NameOf[i], LoopNameOf[i \div loop_size], "timeout")

\* the indices whose oracle timed out and whose file lies in a bucket
TimeoutsStored == {i \in Indices : oracle[i + 1] = "timeout" /\ BucketFilesOf(i) # {}}

NoKeyword(out) ==
    /\ ~HasKeyword(out, KwWellTyped)
    /\ ~HasKeyword(out, KwIllTyped)
    /\ ~HasKeyword(out, KwIllFormed)

\* the oracle outputs of a run that contain none of the three keywords
NoKeywordOutputs == {out \in RunOutputs \cup {<<>>} : NoKeyword(out)}

\* C6: when the oracle returns an output with none of the three keywords the
\* result type is error; an index with the result type error is never
\* categorized, has no file in any bucket, and once its cycle has ended its
\* generated file is deleted and the run is back at the head of the loop.
C6_ErrorDiscarded ==
    /\ \A i \in Indices :
        (/\ i = program_count - 1
         /\ oracle[i + 1] = "returned"
         /\ output \in NoKeywordOutputs) => verdict[i + 1] = "error"
    /\ \A i \in Indices :
        verdict[i + 1] = "error" =>
            /\ cycle[i + 1] \in {"pending", "error", "interrupted"}
            /\ BucketFilesOf(i) = {}
            /\ cycle[i + 1] = "pending" => pc = "cleanup"
            /\ cycle[i + 1] = "error" => FilesOf(i) = {}
            /\ (cycle[i + 1] = "error" /\ i = program_count - 1) =>
                 (pc = "loop" \/ AfterLoop)
    /\ Cardinality({f \in fs : f.sub \in Buckets}) =
         Cardinality({i \in Indices : BucketFilesOf(i) # {}})

\* C6: the oracle printed "error: crash" for index 0, whose file is gone, and
\* index 1 is being generated
C6_Witness ==
    /\ program_count = 2
    /\ pc = "generate"
    /\ oracle[1] = "returned"
    /\ verdict[1] = "error"
    /\ cycle[1] = "error"
    /\ FilesOf(0) = {}

\* the indices whose generation failed
GenFailures == {i \in Indices : generator[i + 1] = "failed"}

\* C7: an index whose generation failed is skipped: it is never tested and
\* never has a file in a bucket; the indices are attempted one after the
\* other, each once; a failed index counts toward --count, so a run that is
\* not interrupted leaves the loop with program_count = count, and the
\* number of stored files is at most program_count minus the failures.
C7_GenerationFailure ==
    /\ Len(generator) = program_count
    /\ \A i \in GenFailures :
        /\ cycle[i + 1] = "genfail"
        /\ oracle[i + 1] = "none"
        /\ BucketFilesOf(i) = {}
    /\ \A i \in Indices : cycle[i + 1] = "pending" => i = program_count - 1
    /\ program_count > 0 => program_name = NameOf[program_count - 1]
    /\ count >= 1 => program_count <= count
    /\ (count >= 1 /\ AfterLoop /\ ~interrupted) => program_count = count
    /\ Cardinality({f \in fs : f.root = "gauntlet"})
         <= program_count - Cardinality(GenFailures)

\* C7: --count 2 has ended: index 0 failed to generate after writing its
\* file, index 1 was attempted next and stored
C7_Witness ==
    /\ pc = "done"
    /\ count = 2
    /\ program_count = 2
    /\ generator = <<"failed", "ok">>
    /\ StagingFile(ProgramName(0)) \in fs
    /\ cycle = <<"genfail", "stored">>

\* the bucket of each stored verdict
BucketOfVerdict ==
    [v \in {"well-typed", "ill-typed", "ill-formed", "timeout"} |->
        CASE v = "well-typed" -> "welltyped"
          [] v = "ill-typed" -> "illtyped"
          [] v = "ill-formed" -> "illformed"
          [] v = "timeout" -> "timeout"]

\* the loop size the --loop-size argument stands for
EffectiveLoopSize == IF loop_size_arg >= 1 THEN loop_size_arg ELSE 1

\* the bucket file index i belongs in
PlaceOf(i) ==
    BucketFile(NameOf[i], LoopNameOf[i \div EffectiveLoopSize],
               BucketOfVerdict[verdict[i + 1]])

\* the number in the name of each loop directory
LoopNumber ==
    [name \in {LoopNameOf[b] : b \in 0..MaxIndex} |->
        CHOOSE b \in 0..MaxIndex : LoopNameOf[b] = name]

\* the numbers of the loop directories that hold a file of index i
LoopsOf(i) == {LoopNumber[f.loop] : f \in BucketFilesOf(i)}

\* C8: a --loop-size of 0 or less counts as 1; every file under gauntlet/ is
\* the only bucket file of its index and lies in the bucket of the index's
\* verdict under loop i div max(1, loop size); a stored index has exactly
\* that file; loop indices do not decrease as i grows.
C8_BucketPlacement ==
    /\ loop_size = EffectiveLoopSize
    /\ \A f \in fs : \E i \in Indices : f \in FilesOf(i)
    /\ \A i \in Indices :
        LET files == FilesOf(i)
            stored == {f \in files : f.root = "gauntlet"}
        IN  /\ stored # {} =>
                 /\ verdict[i + 1] \in DOMAIN BucketOfVerdict
                 /\ stored = {PlaceOf(i)}
            /\ cycle[i + 1] = "stored" => files = {PlaceOf(i)}
    /\ \A j \in Indices :
        \A b \in LoopsOf(j) : \A i \in 0..j : \A a \in LoopsOf(i) : a <= b

\* C8: --loop-size 0 or less; index 0 timed out and lies in loop00/timeout,
\* index 1 is ill-formed and lies in loop01/illformed
C8_Witness ==
    /\ loop_size_arg <= 0
    /\ cycle = <<"stored", "stored">>
    /\ verdict = <<"timeout", "ill-formed">>
    /\ fs = {BucketFile(NameOf[0], LoopNameOf[0], "timeout"),
             BucketFile(NameOf[1], LoopNameOf[1], "illformed")}

\* C9: no index has files in two places, and once the cycle of an index has
\* ended its artifact is in one bucket or deleted: none is left in the
\* staging directory.
C9_TerminalLifecycle ==
    \A i \in Indices :
        /\ Cardinality(FilesOf(i)) <= 1
        /\ Ended(i) => StagingFile(NameOf[i]) \notin fs

\* C10: an interrupt takes effect only once the cycle in flight is complete:
\* when the run has left the loop, every generated file in the staging
\* directory belongs to a cycle that ran to its end, none to a cycle that
\* was cut short.
C10_CooperativeInterrupt ==
    AfterLoop =>
        \A i \in Indices :
            StagingFile(NameOf[i]) \in fs => Ended(i)

\* the number of programs stored in the buckets
StoredCount == Cardinality({f \in fs : f.root = "gauntlet"})

\* C11: while the loop runs, a summary is printed in exactly the steps in
\* which the number of stored programs reaches a positive multiple of
\* SummaryEvery.
C11_SummaryEveryTen ==
    [][pc # "finishing" =>
         /\ summaries' \in {summaries, summaries + 1}
         /\ (summaries' = summaries + 1) <=>
              (StoredCount' # StoredCount /\ StoredCount' % SummaryEvery = 0)]_vars

\* C12: when the dependency check fails the process ends with a non-zero
\* exit status, having assigned no index and started neither the generator,
\* the oracle nor the coverage tool.
C12_FatalStartFailure ==
    pc = "aborted" =>
        /\ exit_status = "nonzero"
        /\ program_count = 0
        /\ generator = <<>>
        /\ oracle = <<>>
        /\ measureLog = <<>>
        /\ fs = {}

\* C13: in a --count run the stop condition is checked before each cycle: an
\* index is assigned only at the head of the loop, only while program_count
\* is below count, and it is the next number; the run that leaves the loop
\* has assigned exactly the indices 0..count-1; the loop is always left,
\* and Finishing always ends in Done.
C13_CountMode ==
    /\ [][program_count' # program_count =>
            /\ pc = "loop"
            /\ program_count < count
            /\ program_count' = program_count + 1
            /\ program_name' = NameOf[program_count]
            /\ Len(cycle') = program_count']_vars
    /\ [](AfterLoop => (program_count = count /\ Len(cycle) = count))
    /\ (pc = "loop" ~> pc = "finishing")
    /\ (pc = "finishing" ~> pc = "done")

\* C13: --count 2 has reached Done after a generation failure and an error
\* verdict: both indices were assigned
C13_Witness ==
    /\ pc = "done"
    /\ count = 2
    /\ program_count = 2
    /\ program_name = NameOf[1]
    /\ cycle = <<"genfail", "error">>

\* C14: the run that has left the loop prints the final summary and ends in
\* Done: the only step from Finishing is the one that prints the summary of
\* the files on disk and ends the run.
C14_FinalSummaryAlways ==
    [][pc = "finishing" =>
         /\ pc' = "done"
         /\ summaries' = summaries + 1
         /\ lastSummary' = print_summary(fs)]_vars

\* the positions in measureLog of the measurements started in a phase
LogOf(phase) == {k \in 1..Len(measureLog) : measureLog[k].phase = phase}

\* a KeyboardInterrupt was raised while the coverage tool ran at a boundary:
\* that measurement was started and last_measured_loop_index not set
InterruptedInMeasure ==
    /\ interrupted
    /\ \E k \in LogOf("boundary") : measureLog[k].loop > last_measured_loop_index

\* C15: in a run that has ended, no interrupt having cut a boundary
\* measurement: with no index assigned nothing is measured; else Finishing
\* measured the loop of the last assigned index exactly when no boundary
\* measurement of that loop was started, no loop was measured twice, and
\* the final loop has exactly one measurement.
C15_FinishingRule ==
    (pc = "done" /\ ~InterruptedInMeasure) =>
        IF program_count = 0
        THEN measureLog = <<>>
        ELSE LET final == (program_count - 1) \div loop_size
             IN  /\ (LogOf("finishing") # {}) <=>
                      (\A k \in LogOf("boundary") : measureLog[k].loop # final)
                 /\ \A k \in LogOf("finishing") :
                      measureLog[k].loop = final /\ k = Len(measureLog)
                 /\ \A j, k \in 1..Len(measureLog) :
                      j < k => measureLog[j].loop < measureLog[k].loop
                 /\ Cardinality({k \in 1..Len(measureLog) :
                                   measureLog[k].loop = final}) = 1

\* C15: loop size 2; index 0 was stored, an interrupt was raised before the
\* next cycle, and Finishing measured the partial loop 0
C15_Witness ==
    /\ pc = "done"
    /\ interrupted
    /\ loop_size = 2
    /\ cycle = <<"stored">>
    /\ Len(measureLog) = 1
    /\ measureLog[1].loop = 0
    /\ measureLog[1].phase = "finishing"

\* a step in which a KeyboardInterrupt is raised
InterruptRaised == pc' = "killed" \/ (pc # "finishing" /\ pc' = "finishing" /\ interrupted')

\* C16: a step that starts the measurement of a loop b leaves every record
\* other than that of b as it was and creates no other record; when the
\* measurement fails (the tool fails or times out, or reading, joining or
\* writing the records raises) and no interrupt is raised, the run goes on
\* with the next cycle, or ends with the final summary; the record of b gets
\* the union with its predecessor only when the tool succeeded and both
\* records were read, and is the fresh measurement otherwise.
C16_CoverageNonFatal ==
    [][Len(measureLog') = Len(measureLog) + 1 =>
         LET e == measureLog'[Len(measureLog')]
             rec == CovFile(e.loop)
         IN  /\ DOMAIN cov' \subseteq DOMAIN cov \cup {rec}
             /\ \A p \in DOMAIN cov \ {rec} : p \in DOMAIN cov' /\ cov'[p] = cov[p]
             /\ (~e.ok /\ ~InterruptRaised) =>
                  /\ pc' = IF pc = "boundary" THEN "loop" ELSE "done"
                  /\ pc' = "done" =>
                       summaries' = summaries + 1 /\ exit_status' = ExitStatusOfReturn
             /\ (rec \in DOMAIN cov' /\ cov' # cov) =>
                  IF e.ok /\ e.loop > 0 /\ PrevCov(e.loop) \in DOMAIN cov
                  THEN cov'[rec] = cov[PrevCov(e.loop)] \cup RawMeasurement(e.loop)
                  ELSE cov'[rec] = RawMeasurement(e.loop)]_vars

\* C16: the coverage tool failed for loop 0 and reading the records raised
\* for loop 1; the run went on and ended with the final summary, loop 0
\* having no record and loop 1 its fresh measurement
C16_Witness ==
    /\ pc = "done"
    /\ ~interrupted
    /\ Len(measureLog) = 2
    /\ ~measureLog[1].ok
    /\ ~measureLog[2].ok
    /\ measureLog[2].loop = 1
    /\ PrevCov(1) \in DOMAIN cov
    /\ CovFile(0) \notin DOMAIN cov
    /\ cov[CovFile(1)] = RawMeasurement(1)

\* in every step: the indices are assigned one by one, each name being that
\* of the next number, and what the generator and the oracle did for an
\* index, once entered, is not entered again
OneCallPerIndex ==
    /\ program_count' \in {program_count, program_count + 1}
    /\ program_count' # program_count => program_name' = NameOf[program_count]
    /\ Len(generator') = program_count' /\ Len(oracle') = program_count'
    /\ \A i \in 1..Len(generator) :
        /\ generator[i] # "none" => generator'[i] = generator[i]
        /\ oracle[i] # "none" => oracle'[i] = oracle[i]
        /\ (generator'[i] # generator[i] \/ oracle'[i] # oracle[i]) => i = program_count

\* the earlier measurements of the loop whose measurement a step starts
EarlierAttempts ==
    {j \in 1..Len(measureLog) :
        measureLog[j].loop = measureLog'[Len(measureLog')].loop}

C18_RelocationIdempotent ==
    [][(pc = "relocated" /\ categorized = <<TRUE>>) =>
         /\ fs' = fs
         /\ categorized' = <<TRUE, FALSE>>
         /\ {f \in fs' : f.name = program_name} =
              {BucketFile(program_name,
                          LoopName((program_count - 1) \div loop_size),
                          BucketOfVerdict[result_type])}]_vars

\* C18: categorize_program was called twice for a timed-out program, the
\* program of index 0 being stored: it returned True, then False
C18_Witness ==
    /\ pc = "relocated_again"
    /\ categorized = <<TRUE, FALSE>>
    /\ result_type = "timeout"
    /\ program_count = 3
    /\ Cardinality(fs) = 2

\* the run is between two cycles: at the head of the loop, or after the loop
\* with no cycle cut short
BetweenCycles ==
    \/ pc = "loop"
    \/ AfterLoop /\ \A i \in Indices : Ended(i)

\* the four classes of assigned indices, by what was done for each
GenerationFailed == {i \in Indices : generator[i + 1] = "failed"}

Discarded == {i \in Indices : verdict[i + 1] = "error"}

StoredIndices == {i \in Indices : BucketFilesOf(i) # {}}

RelocationFailed ==
    {i \in Indices : verdict[i + 1] \in StoredTypes /\ BucketFilesOf(i) = {}}

\* C19: between two cycles every assigned index is in exactly one of the
\* classes generation failed, discarded after an error result, relocation
\* failed, stored; program_count is the sum of their sizes; the total of the
\* summary is the number of stored programs, which are the indices with a
\* result type other than error whose relocation succeeded.
C19_Accounting ==
    BetweenCycles =>
        LET failed == GenerationFailed
            discarded == Discarded
            unmoved == RelocationFailed
            stored == StoredIndices
        IN  /\ failed \cup discarded \cup unmoved \cup stored = Indices
            /\ program_count =
                 Cardinality(failed) + Cardinality(discarded)
                 + Cardinality(unmoved) + Cardinality(stored)
            /\ \A i \in Indices :
                /\ i \in failed <=> cycle[i + 1] = "genfail"
                /\ i \in discarded <=> cycle[i + 1] = "error"
                /\ i \in unmoved <=> cycle[i + 1] = "relocfail"
                /\ i \in stored <=>
                     (cycle[i + 1] = "stored" /\ verdict[i + 1] \in StoredTypes)
            /\ print_summary(fs).total = Cardinality(stored)
            /\ pc = "done" => lastSummary.total = Cardinality(stored)
            /\ Len(categorized) = Cardinality(unmoved) + Cardinality(stored)

\* C19: between the cycles of a run, index 0 having failed to generate and
\* index 1 being stored as a timeout
C19_Witness ==
    /\ pc = "loop"
    /\ cycle = <<"genfail", "stored">>
    /\ verdict = <<"none", "timeout">>
    /\ print_summary(fs).total = 1

\* the indices of loop b
BatchOf(b) == (b * loop_size)..((b + 1) * loop_size - 1)

\* C20: when a boundary measurement is about to start, for the loop index b
\* it is given: the indices of loop b are all assigned and their cycles have
\* ended, no later index is assigned, and the files under the directory of
\* loop b are those of the stored indices of loop b; every boundary
\* measurement was started with program_count at the end of its loop.
C20_ClosedBatch ==
    /\ (pc = "boundary" /\ program_count % loop_size = 0) =>
         LET b == CurrentLoopIndex(program_count, loop_size)
         IN  /\ program_count = (b + 1) * loop_size
             /\ \A i \in BatchOf(b) : i \in Indices /\ Ended(i)
             /\ \A i \in Indices :
                 \A f \in BucketFilesOf(i) : f.loop = LoopNameOf[b] <=> i \in BatchOf(b)
             /\ \A i \in BatchOf(b) :
                 cycle[i + 1] = "stored" => BucketFilesOf(i) # {}
    /\ \A k \in LogOf("boundary") :
         measureLog[k].at = (measureLog[k].loop + 1) * loop_size

\* C20: loop size 2; index 0 failed to generate, index 1 was stored, and the
\* boundary measurement of loop 0 is about to start
C20_Witness ==
    /\ pc = "boundary"
    /\ loop_size = 2
    /\ program_count = 2
    /\ cycle = <<"genfail", "stored">>
    /\ measureLog = <<>>

====
